---- MODULE Spec2Model ----
(***************************************************************************)
(* A model of the rmdb storage substrate:                                  *)
(*   - DiskManager (src/db/rmdb/src/storage/disk_manager.cpp): the Open    *)
(*     File Table (path2fd_, fd2path_), the per-descriptor page counters   *)
(*     (fd2pageno_), page I/O and the lazily opened log file (log_fd_),    *)
(*     on top of a small model of the kernel (files on disk, descriptor    *)
(*     table);                                                             *)
(*   - DeleteExecutor::Next (src/db/rmdb/src/execution/executor_delete.h). *)
(***************************************************************************)
EXTENDS Integers, Sequences, FiniteSets, TLC

VARIABLES
    disk,        \* kernel: path -> what the filesystem holds at that path
    osfd,        \* kernel: open descriptor -> path of the file it refers to
    path2fd_,    \* DiskManager::path2fd_
    fd2path_,    \* DiskManager::fd2path_
    fd2pageno_,  \* DiskManager::fd2pageno_
    log_fd_,     \* DiskManager::log_fd_
    ret,         \* the last call of the manager: its arguments and its outcome
    allocHist,   \* history: per descriptor, the values AllocatePage returned
    logStream,   \* history: the buffers WriteLog wrote, concatenated
    logApiOnly,  \* history: the log file and its descriptor were only touched
                 \*          through ReadLog/WriteLog so far
    heap,        \* RmFileHandle of the table: rid -> row, or NoRecord
    index,       \* sm_manager_->ihs_: column -> set of <<key, rid>> entries
    cols,        \* tab_.cols[i].index: the set of columns flagged as indexed
    wset,        \* context_->txn_: the transaction's write-record list
    rids_,       \* DeleteExecutor::rids_
    pc,          \* DeleteExecutor::Next: where the invocation stands
    pos,         \* DeleteExecutor::Next: position in rids_ of the current rid
    col,         \* DeleteExecutor::Next: column the index loop stands at
    rec,         \* DeleteExecutor::Next: the row fetched for the current rid
    xerr,        \* DeleteExecutor::Next: the exception that ended it
    pre,         \* history: heap, index and wset when the invocation started
    callers      \* the threads inside AllocatePage: per thread, where it stands,
                 \* its descriptor, the counter when it entered (history) and
                 \* the value it returns

diskVars == <<disk, osfd, path2fd_, fd2path_, fd2pageno_, log_fd_, ret,
              allocHist, logStream, logApiOnly>>
delVars  == <<heap, index, cols, wset, rids_, pc, pos, col, rec, xerr, pre>>
vars     == <<disk, osfd, path2fd_, fd2path_, fd2pageno_, log_fd_, ret,
              allocHist, logStream, logApiOnly,
              heap, index, cols, wset, rids_, pc, pos, col, rec, xerr, pre,
              callers>>

----------------------------------------------------------------------------
(* Bounds of the model *)

\* bytes per page (the program's PAGE_SIZE, scaled down)
PAGE_SIZE == 2
\* page numbers passed to read_page/write_page are 0..MaxPageNo
MaxPageNo == 1
\* AllocatePage is called while the counter is below MaxAlloc
MaxAlloc == 2
\* WriteLog is called while the bytes written to the log so far stay within MaxLogLen
MaxLogLen == 3
\* the table has at most MaxRids rows, and a delete gets at most MaxRids rids
MaxRids == 2
\* threads that call AllocatePage at the same time
NumThreads == 2

----------------------------------------------------------------------------
(* The kernel *)

\* `int fd = -1`: the value open(2) returns on failure, and the unset log_fd_
NoFd == -1
\* open(2) returns the lowest free descriptor; 0, 1 and 2 are the standard streams
FdMin == 3

LOG_FILE_NAME == "db.log"
\* "a" and the log file are regular files when they exist, "d" is a directory
RegPaths == {"a", LOG_FILE_NAME}
Paths == RegPaths \cup {"d"}
\* descriptors the kernel hands out: one per file that can be open at a time
Fds == FdMin .. (FdMin + Cardinality(RegPaths) - 1)
Handles == Fds \cup {NoFd}

NoFile == [kind |-> "none", rw |-> FALSE, data |-> <<>>]
Dir == [kind |-> "dir", rw |-> FALSE, data |-> <<>>]
RegFile(rw, data) == [kind |-> "reg", rw |-> rw, data |-> data]

Min(a, b) == IF a < b THEN a ELSE b
Max(a, b) == IF a > b THEN a ELSE b

\* std::map operator[]= and erase
Put(f, k, v) == [x \in DOMAIN f \cup {k} |-> IF x = k THEN v ELSE f[x]]
Erase(f, k) == [x \in DOMAIN f \ {k} |-> f[x]]

\* stat(2) succeeds
StatOk(path) == disk[path].kind # "none"

\* open(path, O_RDWR): the lowest free descriptor, or -1 when the file's mode
\* does not allow reading and writing
LowestFreeFd == CHOOSE f \in Fds : f \notin DOMAIN osfd
                                   /\ \A g \in Fds : g < f => g \in DOMAIN osfd
OsOpen(path) == IF disk[path].kind = "reg" /\ disk[path].rw THEN LowestFreeFd ELSE NoFd

\* lseek(fd, off, SEEK_SET); write(fd, buf, Len(buf)) on a regular file: the bytes
\* land at off, a gap between the old end and off reads as zeros
PWrite(data, off, buf) ==
    IF buf = <<>> THEN data
    ELSE [i \in 1 .. Max(Len(data), off + Len(buf)) |->
            IF i > off /\ i <= off + Len(buf) THEN buf[i - off]
            ELSE IF i <= Len(data) THEN data[i]
            ELSE 0]

\* lseek(fd, off, SEEK_SET); read(fd, buf, n): the bytes from off, fewer than n
\* when the file ends first
PRead(data, off, n) ==
    IF off >= Len(data) THEN <<>>
    ELSE SubSeq(data, off + 1, Min(Len(data), off + n))

\* the buffers callers pass: for each length two byte patterns
BufA(n) == [i \in 1 .. n |-> 1 + (i % 2)]
BufB(n) == [i \in 1 .. n |-> 2 - (i % 2)]
Buffers(n) == {BufA(n), BufB(n)}

----------------------------------------------------------------------------
(* The outcome of a call *)

\* op: the call; path, fd, page, n, data: its arguments (page is the absolute
\* offset for ReadLog); val: the integer it returned (descriptor, page number,
\* file size) or the number of bytes transferred; data: the bytes written, or
\* the bytes delivered by a read; flag: the bool ReadLog returned, and for
\* open_file whether the call took the branch that opens the file;
\* err: the exception thrown, "none" when the call returned
Ret(op, path, fd, page, n, data, val, flag, err) ==
    [op |-> op, path |-> path, fd |-> fd, page |-> page, n |-> n,
     data |-> data, val |-> val, flag |-> flag, err |-> err]

NoRet == Ret("none", "", NoFd, 0, 0, <<>>, 0, FALSE, "none")

----------------------------------------------------------------------------
(* DiskManager *)

\* the manager is constructed in a directory that holds an empty data file, an
\* empty log file and a subdirectory; each file's mode may or may not allow
\* open(path, O_RDWR)
InitDisk ==
    /\ \E rwA \in BOOLEAN, rwL \in BOOLEAN :
          disk = [p \in Paths |->
                    IF p = "d" THEN Dir
                    ELSE IF p = "a" THEN RegFile(rwA, <<>>)
                    ELSE RegFile(rwL, <<>>)]
    /\ osfd = <<>>
    /\ path2fd_ = <<>>
    /\ fd2path_ = <<>>
    /\ fd2pageno_ = [f \in Fds |-> 0]
    /\ log_fd_ = NoFd
    /\ ret = NoRet
    /\ allocHist = [f \in Fds |-> <<>>]
    /\ logStream = <<>>
    /\ logApiOnly = TRUE

is_file(path) == disk[path].kind = "reg"

GetFileSize(file_name) == IF StatOk(file_name) THEN Len(disk[file_name].data) ELSE -1

\* create_file: Open(path, O_CREAT) passes no mode argument, so the mode of the
\* new file is whatever the third argument register holds: it may or may not
\* allow a later open(path, O_RDWR)
create_refused_if_file(path) == is_file(path)
create_refused(path) == StatOk(path)

create_file(path) ==
    /\ IF create_refused(path)
       THEN /\ ret' = Ret("create_file", path, NoFd, 0, 0, <<>>, 0, FALSE, "FileExists")
            /\ UNCHANGED <<disk, logApiOnly>>
       ELSE /\ \E rw \in BOOLEAN : disk' = [disk EXCEPT ![path] = RegFile(rw, <<>>)]
            /\ ret' = Ret("create_file", path, NoFd, 0, 0, <<>>, 0, FALSE, "none")
            /\ logApiOnly' = (logApiOnly /\ path # LOG_FILE_NAME)
    /\ UNCHANGED <<osfd, path2fd_, fd2path_, fd2pageno_, log_fd_, allocHist, logStream>>
    /\ UNCHANGED <<delVars, callers>>

\* destroy_file: `if (path2fd_.find(path) != path2fd_.end())`
destroy_refused_never(path) == FALSE
destroy_refused(path) == path \in DOMAIN path2fd_

destroy_file(path) ==
    /\ IF destroy_refused(path)
       THEN /\ ret' = Ret("destroy_file", path, NoFd, 0, 0, <<>>, 0, FALSE, "FileNotFound")
            /\ UNCHANGED <<disk, logApiOnly>>
       ELSE IF ~StatOk(path)
       THEN /\ ret' = Ret("destroy_file", path, NoFd, 0, 0, <<>>, 0, FALSE, "FileNotFound")
            /\ UNCHANGED <<disk, logApiOnly>>
       ELSE IF disk[path].kind = "dir"
       THEN \* unlink(2) of a directory fails with EISDIR
            /\ ret' = Ret("destroy_file", path, NoFd, 0, 0, <<>>, 0, FALSE, "UnixError")
            /\ UNCHANGED <<disk, logApiOnly>>
       ELSE /\ disk' = [disk EXCEPT ![path] = NoFile]
            /\ ret' = Ret("destroy_file", path, NoFd, 0, 0, <<>>, 0, FALSE, "none")
            /\ logApiOnly' = (logApiOnly /\ path # LOG_FILE_NAME)
    /\ UNCHANGED <<osfd, path2fd_, fd2path_, fd2pageno_, log_fd_, allocHist, logStream>>
    /\ UNCHANGED <<delVars, callers>>

\* open_file: the exception or the descriptor returned, and the tables and the
\* kernel's descriptor table after the call
open_file_res(path) ==
    IF ~is_file(path)
    THEN [err |-> "FileNotFound", fd |-> NoFd, fresh |-> FALSE,
          p2f |-> path2fd_, f2p |-> fd2path_, os |-> osfd]
    ELSE IF path \notin DOMAIN path2fd_
    THEN LET fd == OsOpen(path) IN
         [err |-> "none", fd |-> fd, fresh |-> TRUE,
          p2f |-> Put(path2fd_, path, fd), f2p |-> Put(fd2path_, fd, path),
          os |-> IF fd = NoFd THEN osfd ELSE Put(osfd, fd, path)]
    ELSE [err |-> "none", fd |-> path2fd_[path], fresh |-> FALSE,
          p2f |-> path2fd_, f2p |-> fd2path_, os |-> osfd]

open_file(path) ==
    LET o == open_file_res(path) IN
    /\ path2fd_' = o.p2f
    /\ fd2path_' = o.f2p
    /\ osfd' = o.os
    /\ ret' = Ret("open_file", path, NoFd, 0, 0, <<>>, o.fd, o.fresh, o.err)
    /\ UNCHANGED <<disk, fd2pageno_, log_fd_, allocHist, logStream, logApiOnly>>
    /\ UNCHANGED <<delVars, callers>>

\* close_file does not touch fd2pageno_
counters_reset_on_close(fd) ==
    [f \in Fds |-> IF f = fd THEN 0 ELSE fd2pageno_[f]]
counters_after_close(fd) == fd2pageno_

\* close_file; close(-1) fails with EBADF and its result is not looked at
close_file(fd) ==
    /\ IF fd \in DOMAIN fd2path_
       THEN /\ osfd' = Erase(osfd, fd)
            /\ path2fd_' = Erase(path2fd_, fd2path_[fd])
            /\ fd2path_' = Erase(fd2path_, fd)
            /\ ret' = Ret("close_file", fd2path_[fd], fd, 0, 0, <<>>, 0, FALSE, "none")
            /\ fd2pageno_' = counters_after_close(fd)
            /\ logApiOnly' = (logApiOnly /\ fd # log_fd_
                                         /\ fd2path_[fd] # LOG_FILE_NAME)
       ELSE /\ ret' = Ret("close_file", "", fd, 0, 0, <<>>, 0, FALSE, "FileNotOpen")
            /\ UNCHANGED <<osfd, path2fd_, fd2path_, fd2pageno_, logApiOnly>>
    /\ UNCHANGED <<disk, log_fd_, allocHist, logStream>>
    /\ UNCHANGED <<delVars, callers>>

\* `fd2pageno_[fd]++`: the counter after the call
counter_kept(fd) == fd2pageno_[fd]
counter_incremented(fd) == fd2pageno_[fd] + 1

\* AllocatePage: called by the layers above on a descriptor open_file gave
\* them; the code itself only asserts the range
AllocatePage(fd) ==
    /\ fd >= 0 /\ fd \in Fds
    /\ fd \in DOMAIN fd2path_
    /\ fd2pageno_[fd] < MaxAlloc
    /\ fd2pageno_' = [fd2pageno_ EXCEPT ![fd] = counter_incremented(fd)]
    /\ ret' = Ret("AllocatePage", "", fd, 0, 0, <<>>, fd2pageno_[fd], FALSE, "none")
    /\ allocHist' = [allocHist EXCEPT ![fd] = Append(@, fd2pageno_[fd])]
    /\ UNCHANGED <<disk, osfd, path2fd_, fd2path_, log_fd_, logStream, logApiOnly>>
    /\ UNCHANGED <<delVars, callers>>

DeallocatePage(page_id) ==
    /\ ret' = Ret("DeallocatePage", "", NoFd, page_id, 0, <<>>, 0, FALSE, "none")
    /\ UNCHANGED <<disk, osfd, path2fd_, fd2path_, fd2pageno_, log_fd_,
                   allocHist, logStream, logApiOnly>>
    /\ UNCHANGED <<delVars, callers>>

\* threads calling AllocatePage concurrently
Threads == 1 .. NumThreads
NoCall == [pc |-> "idle", fd |-> NoFd, seen |-> 0, val |-> 0]
CallersIdle == callers = [t \in Threads |-> NoCall]

\* `fd2pageno_[fd]++` on std::atomic<page_id_t>: one read-modify-write, the
\* value stored is one more than the counter holds at that moment
fetch_add_from_entry(t) == callers[t].seen + 1
fetch_add(t) == fd2pageno_[callers[t].fd] + 1

\* a thread enters AllocatePage(fd): `assert(fd >= 0 && fd < MAX_FD)`
AllocEnter(t, fd) ==
    /\ callers[t].pc = "idle"
    /\ fd >= 0 /\ fd \in Fds
    /\ fd \in DOMAIN fd2path_
    /\ fd2pageno_[fd]
         + Cardinality({u \in Threads : callers[u].pc = "called" /\ callers[u].fd = fd})
         < MaxAlloc
    /\ callers' = [callers EXCEPT ![t] =
                     [pc |-> "called", fd |-> fd, seen |-> fd2pageno_[fd], val |-> 0]]
    /\ UNCHANGED diskVars
    /\ UNCHANGED delVars

\* the thread's atomic post-increment
AllocFetchAdd(t) ==
    LET fd == callers[t].fd IN
    /\ callers[t].pc = "called"
    /\ fd2pageno_' = [fd2pageno_ EXCEPT ![fd] = fetch_add(t)]
    /\ callers' = [callers EXCEPT ![t].pc = "returned", ![t].val = fd2pageno_[fd]]
    /\ allocHist' = [allocHist EXCEPT ![fd] = Append(@, fd2pageno_[fd])]
    /\ ret' = Ret("AllocatePage", "", fd, 0, 0, <<>>, fd2pageno_[fd], FALSE, "none")
    /\ UNCHANGED <<disk, osfd, path2fd_, fd2path_, log_fd_, logStream, logApiOnly>>
    /\ UNCHANGED delVars

\* the thread has its page number and leaves AllocatePage
AllocLeave(t) ==
    /\ callers[t].pc = "returned"
    /\ callers' = [callers EXCEPT ![t] = NoCall]
    /\ UNCHANGED diskVars
    /\ UNCHANGED delVars

\* `Lseek(fd, page_no * PAGE_SIZE, SEEK_SET)` of write_page and of read_page
write_seek(page_no) == page_no * PAGE_SIZE
read_seek_page_no(page_no) == page_no
read_seek(page_no) == page_no * PAGE_SIZE

\* write_page: Lseek throws on a descriptor that is not open (EBADF); Write
\* only looks at a negative result
write_page(fd, page_no, buf) ==
    /\ Len(buf) <= PAGE_SIZE
    /\ IF fd \notin DOMAIN osfd
       THEN /\ ret' = Ret("write_page", "", fd, page_no, Len(buf), buf, 0, FALSE, "UnixError")
            /\ UNCHANGED <<disk, logApiOnly>>
       ELSE /\ disk' = [disk EXCEPT ![osfd[fd]].data =
                            PWrite(@, write_seek(page_no), buf)]
            /\ ret' = Ret("write_page", osfd[fd], fd, page_no, Len(buf), buf,
                          Len(buf), FALSE, "none")
            /\ logApiOnly' = (logApiOnly /\ osfd[fd] # LOG_FILE_NAME)
    /\ UNCHANGED <<osfd, path2fd_, fd2path_, fd2pageno_, log_fd_, allocHist, logStream>>
    /\ UNCHANGED <<delVars, callers>>

\* read_page: Read only looks at a negative result, so a read that the end of
\* the file cuts short returns normally
read_page(fd, page_no, num_bytes) ==
    /\ num_bytes <= PAGE_SIZE
    /\ IF fd \notin DOMAIN osfd
       THEN ret' = Ret("read_page", "", fd, page_no, num_bytes, <<>>, 0, FALSE, "UnixError")
       ELSE LET got == PRead(disk[osfd[fd]].data, read_seek(page_no), num_bytes) IN
            ret' = Ret("read_page", osfd[fd], fd, page_no, num_bytes, got,
                       Len(got), FALSE, "none")
    /\ UNCHANGED <<disk, osfd, path2fd_, fd2path_, fd2pageno_, log_fd_,
                   allocHist, logStream, logApiOnly>>
    /\ UNCHANGED <<delVars, callers>>

\* the first lines of ReadLog and WriteLog: open the log file when log_fd_ is unset
lazy_open ==
    IF log_fd_ = NoFd THEN open_file_res(LOG_FILE_NAME)
    ELSE [err |-> "none", fd |-> log_fd_, fresh |-> FALSE,
          p2f |-> path2fd_, f2p |-> fd2path_, os |-> osfd]

\* ReadLog: `if (offset >= file_size) return false`
beyond_end(offset, file_size) == offset > file_size
at_or_beyond_end(offset, file_size) == offset >= file_size

\* WriteLog: `lseek(log_fd_, 0, SEEK_END); write(log_fd_, log_data, size)`
write_at_start(data, buf) == PWrite(data, 0, buf)
write_at_end(data, buf) == PWrite(data, Len(data), buf)

ReadLog(size, offset, prev_log_end) ==
    LET o == lazy_open
        off == offset + prev_log_end
        file_size == GetFileSize(LOG_FILE_NAME)
        sz == Min(size, file_size - off)
        live == o.fd \in DOMAIN o.os
        got == IF live THEN PRead(disk[o.os[o.fd]].data, off, sz) ELSE <<>>
        bytes_read == IF live THEN Len(got) ELSE -1
    IN
    /\ IF o.err # "none"
       THEN /\ ret' = Ret("ReadLog", LOG_FILE_NAME, log_fd_, off, size, <<>>,
                          file_size, FALSE, o.err)
            /\ UNCHANGED <<log_fd_, path2fd_, fd2path_, osfd>>
       ELSE /\ log_fd_' = o.fd
            /\ path2fd_' = o.p2f
            /\ fd2path_' = o.f2p
            /\ osfd' = o.os
            /\ ret' = IF at_or_beyond_end(off, file_size)
                      THEN Ret("ReadLog", LOG_FILE_NAME, o.fd, off, size, <<>>,
                               file_size, FALSE, "none")
                      ELSE IF bytes_read # sz
                      THEN Ret("ReadLog", LOG_FILE_NAME, o.fd, off, size, <<>>,
                               file_size, FALSE, "UnixError")
                      ELSE Ret("ReadLog", LOG_FILE_NAME, o.fd, off, size, got,
                               file_size, TRUE, "none")
    /\ UNCHANGED <<disk, fd2pageno_, allocHist, logStream, logApiOnly>>
    /\ UNCHANGED <<delVars, callers>>

WriteLog(buf) ==
    LET o == lazy_open
        live == o.fd \in DOMAIN o.os
    IN
    /\ IF o.err # "none"
       THEN /\ ret' = Ret("WriteLog", LOG_FILE_NAME, log_fd_, 0, Len(buf), buf,
                          0, FALSE, o.err)
            /\ UNCHANGED <<log_fd_, path2fd_, fd2path_, osfd, disk, logStream>>
       ELSE /\ log_fd_' = o.fd
            /\ path2fd_' = o.p2f
            /\ fd2path_' = o.f2p
            /\ osfd' = o.os
            /\ IF ~live
               THEN \* lseek and write on a descriptor that is not open: write
                    \* returns -1, which is not size
                    /\ ret' = Ret("WriteLog", LOG_FILE_NAME, o.fd, 0, Len(buf), buf,
                                  0, FALSE, "UnixError")
                    /\ UNCHANGED <<disk, logStream>>
               ELSE /\ Len(logStream) + Len(buf) <= MaxLogLen
                    /\ disk' = [disk EXCEPT ![o.os[o.fd]].data = write_at_end(@, buf)]
                    /\ logStream' = logStream \o buf
                    /\ ret' = Ret("WriteLog", o.os[o.fd], o.fd, 0, Len(buf), buf,
                                  Len(buf), FALSE, "none")
    /\ UNCHANGED <<fd2pageno_, allocHist, logApiOnly>>
    /\ UNCHANGED <<delVars, callers>>

\* the Open File Table and the page counters
NextFiles ==
    \/ \E path \in Paths : create_file(path)
    \/ \E path \in Paths : destroy_file(path)
    \/ \E path \in Paths : open_file(path)
    \/ \E fd \in Handles : close_file(fd)
    \/ \E fd \in Fds : AllocatePage(fd)
    \/ \E page_id \in 0 .. MaxAlloc : DeallocatePage(page_id)

\* page I/O on the data file
NextPages ==
    \/ \E path \in {"a"} : create_file(path)
    \/ \E path \in {"a"} : destroy_file(path)
    \/ \E path \in {"a"} : open_file(path)
    \/ \E fd \in Handles : close_file(fd)
    \/ \E fd \in Handles, page_no \in 0 .. MaxPageNo, n \in {1, PAGE_SIZE} :
          \E buf \in Buffers(n) : write_page(fd, page_no, buf)
    \/ \E fd \in Handles, page_no \in 0 .. MaxPageNo, n \in {1, PAGE_SIZE} :
          read_page(fd, page_no, n)

\* the log, next to the data file
NextLog ==
    \/ \E path \in RegPaths : create_file(path)
    \/ \E path \in RegPaths : destroy_file(path)
    \/ \E path \in RegPaths : open_file(path)
    \/ \E fd \in Handles : close_file(fd)
    \/ \E size \in {1, MaxLogLen}, offset \in 0 .. MaxLogLen, prev \in 0 .. 1 :
          ReadLog(size, offset, prev)
    \/ \E n \in 1 .. 2 : \E buf \in Buffers(n) : WriteLog(buf)

\* the delete executor, at rest
DeleteIdle ==
    /\ heap = <<>>
    /\ index = <<>>
    /\ cols = {}
    /\ wset = <<>>
    /\ rids_ = <<>>
    /\ pc = "idle"
    /\ pos = 0
    /\ col = 0
    /\ rec = <<>>
    /\ xerr = "none"
    /\ pre = <<>>

\* several threads allocate pages while files are opened and closed
NextAlloc ==
    \/ \E path \in RegPaths : open_file(path)
    \/ \E fd \in Fds : close_file(fd)
    \/ \E t \in Threads : \E fd \in Fds : AllocEnter(t, fd)
    \/ \E t \in Threads : AllocFetchAdd(t)
    \/ \E t \in Threads : AllocLeave(t)

Init == InitDisk /\ DeleteIdle /\ CallersIdle

SpecFiles == Init /\ [][NextFiles]_vars
\* page I/O leaves the log file alone: one mode for it is enough
InitPages == Init /\ disk[LOG_FILE_NAME].rw

SpecPages == InitPages /\ [][NextPages]_vars
SpecLog == Init /\ [][NextLog]_vars
SpecAlloc == Init /\ [][NextAlloc]_vars

----------------------------------------------------------------------------
(* Claims about DiskManager *)

\* C1: the Open File Table is a bijection: path2fd_ and fd2path_ are exact
\* inverses of each other, so every path appears at most once and every handle
\* in the table maps to exactly one path.
C1_TableIsBijection ==
    /\ \A p \in DOMAIN path2fd_ :
          path2fd_[p] \in DOMAIN fd2path_ /\ fd2path_[path2fd_[p]] = p
    /\ \A f \in DOMAIN fd2path_ :
          fd2path_[f] \in DOMAIN path2fd_ /\ path2fd_[fd2path_[f]] = f

\* C2: an open_file of a path that is already in the table returns the handle
\* the table holds for it; a close_file that succeeds removes from the table
\* every path that had that handle; and a close_file of the handle just closed
\* fails with FileNotOpen.
C2_OpenTwiceCloseOnce ==
    [][ /\ (ret'.op = "open_file" /\ ret'.err = "none" /\ ret'.path \in DOMAIN path2fd_)
            => ret'.val = path2fd_[ret'.path]
        /\ (ret'.op = "close_file" /\ ret'.err = "none")
            => \A p \in DOMAIN path2fd_ :
                  path2fd_[p] = ret'.fd => p \notin DOMAIN path2fd_'
        /\ (ret.op = "close_file" /\ ret.err = "none"
            /\ ret'.op = "close_file" /\ ret'.fd = ret.fd)
            => ret'.err = "FileNotOpen"
      ]_vars

\* C3: destroy_file of a path that is in the Open File Table fails with
\* FileNotFound, also when the file exists on disk; so every path in the table
\* is a regular file on disk: no open file has been removed by destroy_file.
C3_DestroyRefusesOpenFile ==
    /\ (ret.op = "destroy_file" /\ ret.path \in DOMAIN path2fd_)
          => ret.err = "FileNotFound"
    /\ \A p \in DOMAIN path2fd_ : is_file(p)

C3_Witness ==
    /\ ret.op = "destroy_file" /\ ret.err = "FileNotFound"
    /\ ret.path \in DOMAIN path2fd_
    /\ is_file(ret.path)

\* C6: the values AllocatePage returned for one descriptor, in the order of the
\* calls, start at the counter's initial value 0 and are strictly increasing
\* (hence distinct), whatever calls on other descriptors and calls of
\* DeallocatePage came in between.
C6_AllocateIncreasing ==
    \A f \in Fds :
        LET h == allocHist[f] IN
        /\ Len(h) > 0 => h[1] = 0
        /\ \A i \in 1 .. Len(h) - 1 : h[i + 1] > h[i]

C6_Witness ==
    /\ ret.op = "DeallocatePage"
    /\ \E f \in Fds : /\ Len(allocHist[f]) >= 2
                      /\ \E g \in Fds \ {f} : Len(allocHist[g]) >= 1

\* C7 as stated: right after an open_file that opened the file (it was not in
\* the table), the counter of the returned handle is 0, so the first
\* AllocatePage on it returns 0.
C7_FreshHandleStartsAtZero ==
    (ret.op = "open_file" /\ ret.err = "none" /\ ret.flag /\ ret.val \in Fds)
        => fd2pageno_[ret.val] = 0

\* C7 amended: the counter belongs to the descriptor number and is set to 0 only
\* when the manager is constructed: it always equals the number of AllocatePage
\* calls made on that number so far, across close_file and open_file.
C7_CounterSurvivesReopen ==
    \A f \in Fds : fd2pageno_[f] = Len(allocHist[f])

C7_Witness ==
    /\ ret.op = "open_file" /\ ret.err = "none" /\ ret.flag /\ ret.val \in Fds
    /\ fd2pageno_[ret.val] > 0

\* C8: a write_page that returns stores its bytes at offset page_no * PAGE_SIZE
\* of the file the handle refers to and changes no other byte of that file nor
\* any other file; a read_page of the same handle, page and length right after
\* it delivers exactly the bytes written.
C8_WriteReadRoundTrip ==
    [][ /\ (ret'.op = "write_page" /\ ret'.err = "none")
            => LET off == ret'.page * PAGE_SIZE
                   old == disk[ret'.path].data
                   new == disk'[ret'.path].data
               IN /\ \A i \in 1 .. ret'.n : new[off + i] = ret'.data[i]
                  /\ \A i \in 1 .. Len(old) :
                        (i <= off \/ i > off + ret'.n) => new[i] = old[i]
                  /\ \A q \in Paths \ {ret'.path} : disk'[q] = disk[q]
        /\ (ret.op = "write_page" /\ ret.err = "none" /\ ret'.op = "read_page"
            /\ ret'.fd = ret.fd /\ ret'.page = ret.page /\ ret'.n = ret.n)
            => (ret'.err = "none" /\ ret'.data = ret.data)
      ]_vars

C8_Witness ==
    /\ ret.op = "read_page" /\ ret.err = "none"
    /\ ret.page = 1 /\ ret.n = PAGE_SIZE /\ Len(ret.data) = PAGE_SIZE
    /\ \A i \in 1 .. PAGE_SIZE : ret.data[i] # 0
    /\ disk[ret.path].data[1] # 0

\* C9: while the log is used through ReadLog and WriteLog only, the log file
\* holds exactly the buffers written, concatenated in the order of the
\* WriteLog calls, and a ReadLog with offset 0 and prev_log_end 0 that returns
\* true delivers the first min(size, length) bytes of that concatenation.
C9_LogIsConcatenation ==
    logApiOnly =>
        /\ is_file(LOG_FILE_NAME)
        /\ disk[LOG_FILE_NAME].data = logStream
        /\ (ret.op = "ReadLog" /\ ret.page = 0 /\ logStream # <<>>)
              => /\ ret.err = "none" /\ ret.flag
                 /\ ret.data = SubSeq(logStream, 1, Min(ret.n, Len(logStream)))

C9_Witness ==
    /\ logApiOnly
    /\ ret.op = "ReadLog" /\ ret.page = 0 /\ ret.flag
    /\ Len(ret.data) = MaxLogLen /\ ret.data = logStream

\* C10 as stated: a ReadLog whose absolute offset is at or beyond the size of
\* the log file (as GetFileSize reports it) returns false and throws nothing.
C10_BeyondEndIsNoData ==
    (ret.op = "ReadLog" /\ ret.page >= ret.val)
        => (ret.err = "none" /\ ~ret.flag)

\* C10 amended: such a ReadLog returns false and throws nothing whenever a
\* regular file exists at the log path or log_fd_ is already set; the only
\* other outcome is FileNotFound, thrown by the lazy open_file when log_fd_ is
\* unset and no regular file exists at the log path.
C10_BeyondEndUnlessNoLogFile ==
    (ret.op = "ReadLog" /\ ret.page >= ret.val)
        => /\ ret.err \in {"none", "FileNotFound"}
           /\ ret.err = "none" => ~ret.flag
           /\ (is_file(LOG_FILE_NAME) \/ ret.fd # NoFd) => ret.err = "none"
           /\ ret.err = "FileNotFound"
                 => (~is_file(LOG_FILE_NAME) /\ log_fd_ = NoFd)

C10_Witness ==
    /\ ret.op = "ReadLog" /\ ret.page >= ret.val
    /\ ret.val >= 0 /\ ret.err = "none" /\ ~ret.flag


\* C11: a read_page or write_page that returns without an exception has
\* transferred all the bytes asked for: a transfer of fewer bytes fails.
C11_ShortTransferFails ==
    (ret.op \in {"read_page", "write_page"} /\ ret.err = "none")
        => ret.val = ret.n

\* C12: create_file of a path at which the filesystem holds an entry (file or
\* directory) fails with FileExists and changes nothing; otherwise it returns,
\* the path holds an empty regular file, no other path changes, the Open File
\* Table and the descriptors are as before and do not hold the path.
C12_CreateLeavesClosed ==
    [][ ret'.op = "create_file" =>
          /\ path2fd_' = path2fd_ /\ fd2path_' = fd2path_ /\ osfd' = osfd
          /\ fd2pageno_' = fd2pageno_
          /\ \A q \in Paths \ {ret'.path} : disk'[q] = disk[q]
          /\ IF StatOk(ret'.path)
             THEN ret'.err = "FileExists" /\ disk' = disk
             ELSE /\ ret'.err = "none"
                  /\ disk'[ret'.path].kind = "reg"
                  /\ disk'[ret'.path].data = <<>>
                  /\ ret'.path \notin DOMAIN path2fd_'
                  /\ \A f \in DOMAIN osfd' : osfd'[f] # ret'.path
      ]_vars

C12_Witness ==
    /\ ret.op = "create_file" /\ ret.err = "none"
    /\ is_file(ret.path) /\ ret.path \notin DOMAIN path2fd_
    /\ DOMAIN path2fd_ # {}
    /\ disk["d"].kind = "dir"

\* C16: a WriteLog that returns appends exactly the bytes it was given at the
\* end of the log file and changes no other file (the cached log handle is
\* unset or a handle the Open File Table maps to the log path).
C16_WriteLogAppendsToLog ==
    [][ (ret'.op = "WriteLog" /\ ret'.err = "none") =>
          /\ is_file(LOG_FILE_NAME)
          /\ disk'[LOG_FILE_NAME] =
                 [disk[LOG_FILE_NAME] EXCEPT !.data = @ \o ret'.data]
          /\ \A q \in Paths \ {LOG_FILE_NAME} : disk'[q] = disk[q]
      ]_vars

\* C19: a ReadLog whose absolute offset a is smaller than the size L of the
\* log file returns true and delivers exactly min(size, L - a) bytes, the
\* bytes of the log at offsets a .. a + min(size, L - a) - 1; ReadLog never
\* changes a file.
C19_ReadLogDeliversLogBytes ==
    [][ ret'.op = "ReadLog" =>
          /\ disk' = disk
          /\ (0 <= ret'.page /\ ret'.page < ret'.val) =>
                /\ ret'.err = "none" /\ ret'.flag
                /\ ret'.data = SubSeq(disk[LOG_FILE_NAME].data, ret'.page + 1,
                                      ret'.page + Min(ret'.n, ret'.val - ret'.page))
      ]_vars

\* C18: a failing open_file (FileNotFound), close_file (FileNotOpen),
\* create_file (FileExists) or destroy_file (FileNotFound) leaves the Open File
\* Table, the page counters and the files on disk as they were; an open_file
\* that returns gives a handle that the Open File Table holds, mapped to the
\* requested path.
C18_FailingCallsChangeNothing ==
    [][ /\ ( /\ ret'.op \in {"open_file", "close_file", "create_file", "destroy_file"}
             /\ ret'.err \in {"FileNotFound", "FileNotOpen", "FileExists"} )
           => /\ path2fd_' = path2fd_ /\ fd2path_' = fd2path_
              /\ fd2pageno_' = fd2pageno_ /\ disk' = disk
        /\ (ret'.op = "open_file" /\ ret'.err = "none")
           => /\ ret'.val \in DOMAIN fd2path_'
              /\ fd2path_'[ret'.val] = ret'.path
              /\ ret'.path \in DOMAIN path2fd_'
              /\ path2fd_'[ret'.path] = ret'.val
      ]_vars

\* C20: AllocatePage is an atomic fetch-and-increment: with several threads
\* inside AllocatePage on the same descriptor, in every interleaving no two
\* calls get the same page number, and the counter is its initial value 0 plus
\* the number of calls that have done their increment.
C20_ConcurrentAllocateDistinct ==
    \A f \in Fds :
        /\ \A i, j \in 1 .. Len(allocHist[f]) :
              i # j => allocHist[f][i] # allocHist[f][j]
        /\ fd2pageno_[f] = Len(allocHist[f])

\* two threads were inside AllocatePage on the same descriptor at the same
\* time (both entered at the same counter value) and both have returned
C20_Witness ==
    \E t, u \in Threads :
        /\ t # u
        /\ callers[t].pc = "returned" /\ callers[u].pc = "returned"
        /\ callers[t].fd = callers[u].fd
        /\ callers[t].seen = callers[u].seen
        /\ callers[t].val # callers[u].val

----------------------------------------------------------------------------
(* The table the DeleteExecutor works on: heap file, indexes, transaction *)

tab_name_ == "T"
\* tab_.cols: column 1 ("id") and column 2 ("name"); a row gives each column's bytes
ColIds == {1, 2}
ColVals == [c \in ColIds |-> IF c = 1 THEN {5, 6} ELSE {7}]
Rows == {r \in [ColIds -> {5, 6, 7}] : \A c \in ColIds : r[c] \in ColVals[c]}
NoRecord == <<>>
Rids == 1 .. MaxRids

Range(q) == {q[i] : i \in 1 .. Len(q)}
SeqsUpTo(S, n) == UNION {[1 .. k -> S] : k \in 0 .. n}

\* RmFileHandle::get_record: the row, or RecordNotFound
get_record_fails(rid) == heap[rid] = NoRecord
get_record(rid) == heap[rid]

\* RmFileHandle::delete_record: the heap without the row
delete_record(rid) == [heap EXCEPT ![rid] = NoRecord]

\* IxIndexHandle::delete_entry(key, txn): KeyNotFound when the index holds no
\* entry with that key; otherwise the index without one entry of that key (the
\* call names no rid, so with several entries of the key any of them may go)
delete_entry_fails(ix, key) == ~\E e \in ix : e[1] = key
delete_entry(ix, key) == {ix \ {e} : e \in {x \in ix : x[1] = key}}

\* the entries an index on column c holds when it agrees with heap h
Agree(h, c) == {<<h[r][c], r>> : r \in {x \in Rids : h[x] # NoRecord}}

\* `new WriteRecord(WType::DELETE_TUPLE, tab_name_, rid, *rec)`
write_record_as_insert(rid, row) ==
    [kind |-> "INSERT_TUPLE", tab |-> tab_name_, rid |-> rid, rec |-> row]
write_record(rid, row) ==
    [kind |-> "DELETE_TUPLE", tab |-> tab_name_, rid |-> rid, rec |-> row]

\* Transaction::AppendWriteRecord
AppendWriteRecord(ws, wr) == Append(ws, wr)

\* the storage manager, at rest
DiskIdle ==
    /\ disk = [p \in Paths |-> IF p = "d" THEN Dir ELSE RegFile(TRUE, <<>>)]
    /\ osfd = <<>>
    /\ path2fd_ = <<>>
    /\ fd2path_ = <<>>
    /\ fd2pageno_ = [f \in Fds |-> 0]
    /\ log_fd_ = NoFd
    /\ ret = NoRet
    /\ allocHist = [f \in Fds |-> <<>>]
    /\ logStream = <<>>
    /\ logApiOnly = TRUE

\* A DeleteExecutor has been constructed for a batch of rids on a table whose
\* indexes hold, for every heap row, that row's entry, or all but one of these
\* entries; a column flagged as indexed may lack its index handle; the
\* transaction already holds a write record of an earlier statement.
InitDelete ==
    /\ heap \in [Rids -> Rows \cup {NoRecord}]
    /\ cols \in SUBSET ColIds
    /\ \E D \in SUBSET cols :
          index \in {ix \in [D -> SUBSET ({5, 6, 7} \X Rids)] :
                       \A c \in D : \/ ix[c] = Agree(heap, c)
                                    \/ \E e \in Agree(heap, c) :
                                          ix[c] = Agree(heap, c) \ {e}}
    /\ wset = <<[kind |-> "INSERT_TUPLE", tab |-> tab_name_, rid |-> 1,
                 rec |-> [c \in ColIds |-> IF c = 1 THEN 5 ELSE 7]]>>
    /\ rids_ \in SeqsUpTo(Rids, MaxRids)
    /\ pc = "scan"
    /\ pos = 1
    /\ col = 1
    /\ rec = NoRecord
    /\ xerr = "none"
    /\ pre = [heap |-> heap, index |-> index, wset |-> wset]

\* the exception leaves Next
Throw_and_continue(e) ==
    /\ pc' = "append"
    /\ xerr' = e
Throw(e) ==
    /\ pc' = "failed"
    /\ xerr' = e

\* lines 32-36: `sm_manager_->ihs_.at(...)` for a column flagged as indexed
\* finds no index handle
scan_never_fails == FALSE
scan_fails == \E c \in cols : c \notin DOMAIN index

\* lines 30-42: look up the index handle of every column flagged as indexed
ScanIndexColumns ==
    /\ pc = "scan"
    /\ IF scan_fails
       THEN Throw("IndexNotFound")
       ELSE /\ pc' = IF Len(rids_) = 0 THEN "done" ELSE "fetch"
            /\ UNCHANGED xerr
    /\ UNCHANGED <<heap, index, cols, wset, rids_, pos, col, rec, pre>>
    /\ UNCHANGED <<diskVars, callers>>

\* line 45: auto rec = fh_->get_record(rid, context_)
FetchRow ==
    /\ pc = "fetch"
    /\ IF get_record_fails(rids_[pos])
       THEN Throw("RecordNotFound") /\ UNCHANGED <<rec, col>>
       ELSE /\ rec' = get_record(rids_[pos])
            /\ col' = 1
            /\ pc' = "index"
            /\ UNCHANGED xerr
    /\ UNCHANGED <<heap, index, cols, wset, rids_, pos, pre>>
    /\ UNCHANGED <<diskVars, callers>>

\* lines 50-56: one round of the loop over the columns
DeleteFromIndexes ==
    /\ pc = "index"
    /\ IF col \notin ColIds
       THEN pc' = "heap" /\ UNCHANGED <<index, col, xerr>>
       ELSE IF col \notin cols
       THEN col' = col + 1 /\ UNCHANGED <<index, pc, xerr>>
       ELSE IF col \notin DOMAIN index
       THEN Throw("IndexNotFound") /\ UNCHANGED <<index, col>>
       ELSE IF delete_entry_fails(index[col], rec[col])
       THEN Throw("KeyNotFound") /\ UNCHANGED <<index, col>>
       ELSE /\ \E ix \in delete_entry(index[col], rec[col]) :
                  index' = [index EXCEPT ![col] = ix]
            /\ col' = col + 1
            /\ UNCHANGED <<pc, xerr>>
    /\ UNCHANGED <<heap, cols, wset, rids_, pos, rec, pre>>
    /\ UNCHANGED <<diskVars, callers>>

\* line 58: fh_->delete_record(rid, context_)
DeleteFromHeap ==
    /\ pc = "heap"
    /\ IF get_record_fails(rids_[pos])
       THEN Throw("RecordNotFound") /\ UNCHANGED heap
       ELSE /\ heap' = delete_record(rids_[pos])
            /\ pc' = "append"
            /\ UNCHANGED xerr
    /\ UNCHANGED <<index, cols, wset, rids_, pos, col, rec, pre>>
    /\ UNCHANGED <<diskVars, callers>>

\* lines 61-62, and the step of the loop over rids_
AppendRecord ==
    /\ pc = "append"
    /\ wset' = AppendWriteRecord(wset, write_record(rids_[pos], rec))
    /\ pos' = pos + 1
    /\ pc' = IF pos + 1 > Len(rids_) THEN "done" ELSE "fetch"
    /\ UNCHANGED <<heap, index, cols, rids_, col, rec, xerr, pre>>
    /\ UNCHANGED <<diskVars, callers>>

NextDelete ==
    \/ ScanIndexColumns
    \/ FetchRow
    \/ DeleteFromIndexes
    \/ DeleteFromHeap
    \/ AppendRecord

InitTable == InitDelete /\ DiskIdle /\ CallersIdle

SpecDelete == InitTable /\ [][NextDelete]_vars

----------------------------------------------------------------------------
(* Claims about DeleteExecutor::Next *)

\* C4: when Next has returned on a table whose indexes held every row's entry
\* and no other, get_record fails for every rid of the input, no
\* index of an indexed column holds the entry (key, rid) built from the deleted
\* row's bytes of that column, and every index entry of a row that is not in
\* the input is still there.
C4_DeletedFromHeapAndIndexes ==
    (pc = "done" /\ \A c \in DOMAIN pre.index : pre.index[c] = Agree(pre.heap, c)) =>
        /\ \A r \in Range(rids_) :
              /\ get_record_fails(r)
              /\ \A c \in cols : <<pre.heap[r][c], r>> \notin index[c]
        /\ \A c \in cols : \A e \in pre.index[c] :
              e[2] \notin Range(rids_) => e \in index[c]

\* C5: when Next has returned, the transaction's write-record list is its
\* content before the call followed by one DELETE_TUPLE record per input rid,
\* in the order of the input, each with the table name, the rid and the bytes
\* the row had before the delete.
C5_WriteRecordsInOrder ==
    pc = "done" =>
        wset = pre.wset \o
               [i \in 1 .. Len(rids_) |->
                  [kind |-> "DELETE_TUPLE", tab |-> tab_name_,
                   rid |-> rids_[i], rec |-> pre.heap[rids_[i]]]]

C5_Witness ==
    /\ pc = "done"
    /\ Len(rids_) = 2
    /\ pre.heap[rids_[1]] # pre.heap[rids_[2]]
    /\ Len(wset) = Len(pre.wset) + 2
    /\ cols # {}

\* C13: starting from a table whose indexes and heap agree, in every state of
\* the invocation, the state left by a failure included, no index holds an
\* entry whose rid is absent from the heap (the order per rid is fetch, delete
\* from each index, delete from heap, append the write record).
C13_NoIndexEntryWithoutRow ==
    (\A c \in DOMAIN pre.index : pre.index[c] = Agree(pre.heap, c)) =>
        \A c \in DOMAIN index : \A e \in index[c] : ~get_record_fails(e[2])

\* C14: when Next has failed, every heap row and every index entry removed
\* since the call began belongs to a rid for which a write record was appended
\* during the call.
C14_RemovedIsLogged ==
    pc = "failed" =>
        LET logged == {wset[i].rid : i \in Len(pre.wset) + 1 .. Len(wset)} IN
        /\ \A r \in Rids : heap[r] # pre.heap[r] => r \in logged
        /\ \A c \in DOMAIN index :
              \A e \in pre.index[c] \ index[c] : e[2] \in logged

C17_MissingIndexFailsInScan ==
    (\E c \in cols : c \notin DOMAIN index) =>
        /\ pc = "scan" \/ (pc = "failed" /\ xerr = "IndexNotFound")
        /\ heap = pre.heap /\ index = pre.index /\ wset = pre.wset
        /\ rec = NoRecord /\ pos = 1

C17_Witness ==
    /\ pc = "failed" /\ xerr = "IndexNotFound"
    /\ Len(rids_) > 0 /\ ~get_record_fails(rids_[1])
    /\ cols = ColIds /\ DOMAIN index = {1}
    /\ Agree(heap, 1) # {} /\ index[1] = Agree(heap, 1)

====
